---- MODULE Spec2Model ----
(***************************************************************************)
(* Model of the INVERA backend (server.py): a FastAPI application with a   *)
(* status-check log (POST/GET /api/status) and a contact form endpoint     *)
(* (POST /api/contact) that sends an email through the Resend provider and *)
(* then archives the submission in MongoDB.                                *)
(*                                                                         *)
(* Each HTTP request is a coroutine on one asyncio event loop.  A handler  *)
(* runs atomically between two awaits, so every action below is one such   *)
(* segment: request validation up to the first await, or the resumption    *)
(* after an awaited call up to the next await or the response.             *)
(***************************************************************************)
EXTENDS Integers, Sequences, FiniteSets, TLC

\* ---------------------------------------------------------------- bounds
MaxRequests == 2

Requests == 1..MaxRequests

\* ------------------------------------------------------------- constants
\* Python's None, as it is stored in a document or printed by an f-string.
None == "None"
\* A key that is absent from a JSON request body.
Missing == "<missing>"
\* to_list(1000)
ListLimit == 1000

\* os.environ.get('SENDER_EMAIL', 'onboarding@resend.dev')
DefaultSender == "onboarding@resend.dev"

VARIABLES
    environ,              \* the process environment read at import time
    phase,                \* "boot", "running" or "crashed"
    SENDER_EMAIL,         \* module globals set at import time
    RECIPIENT_EMAIL,
    api_key,              \* resend.api_key
    status_checks,        \* db.status_checks, in natural (insertion) order
    contact_submissions,  \* db.contact_submissions
    pc,                   \* per request: position of its handler
    local,                \* per request: the handler's local variables
    resp,                 \* per request: the HTTP response
    invocations,          \* per request: calls of resend.Emails.send made
    loop,                 \* the handlers blocking the event loop thread
    concurrent,           \* per request: dispatches in flight when it arrived
    nextUuid              \* source of fresh uuid4 values

vars == <<environ, phase, SENDER_EMAIL, RECIPIENT_EMAIL, api_key,
          status_checks, contact_submissions, pc, local, resp, invocations,
          loop, concurrent, nextUuid>>

config == <<environ, SENDER_EMAIL, RECIPIENT_EMAIL, api_key>>

\* ------------------------------------------------------------- datetimes
DigitChars == <<"0", "1", "2", "3", "4", "5", "6", "7", "8", "9">>

RECURSIVE Pad(_, _)
\* "%0wd" % n
Pad(n, w) ==
    IF w = 0 THEN <<>>
    ELSE Pad(n \div 10, w - 1) \o <<DigitChars[(n % 10) + 1]>>

DigitVal(c) == CHOOSE d \in 0..9 : DigitChars[d + 1] = c

RECURSIVE ParseInt(_)
ParseInt(s) ==
    IF s = <<>> THEN 0
    ELSE 10 * ParseInt(SubSeq(s, 1, Len(s) - 1)) + DigitVal(s[Len(s)])

\* The values datetime.now(timezone.utc) takes in the model: aware datetimes
\* with a zero UTC offset, with and without a fractional second.
Instants ==
    { [year |-> 2025, month |-> 1, day |-> 9, hour |-> 7, minute |-> 5,
       second |-> 0, microsecond |-> 0, utcoffset |-> 0],
      [year |-> 2025, month |-> 12, day |-> 31, hour |-> 23, minute |-> 59,
       second |-> 59, microsecond |-> 5, utcoffset |-> 0] }

\* The UTC offset suffix "+HH:MM" / "-HH:MM" (minutes).
FormatOffset(off) ==
    LET a == IF off < 0 THEN 0 - off ELSE off
    IN  <<IF off < 0 THEN "-" ELSE "+">> \o Pad(a \div 60, 2) \o <<":">>
        \o Pad(a % 60, 2)

\* A slip that drops the fractional second (timespec='seconds').
isoformat_seconds(dt) ==
    Pad(dt.year, 4) \o <<"-">> \o Pad(dt.month, 2) \o <<"-">> \o Pad(dt.day, 2)
    \o <<"T">> \o Pad(dt.hour, 2) \o <<":">> \o Pad(dt.minute, 2) \o <<":">>
    \o Pad(dt.second, 2) \o FormatOffset(dt.utcoffset)

\* datetime.isoformat(): YYYY-MM-DDTHH:MM:SS[.ffffff]+HH:MM, the fraction
\* being written only when the microsecond field is not zero.
isoformat(dt) ==
    Pad(dt.year, 4) \o <<"-">> \o Pad(dt.month, 2) \o <<"-">> \o Pad(dt.day, 2)
    \o <<"T">> \o Pad(dt.hour, 2) \o <<":">> \o Pad(dt.minute, 2) \o <<":">>
    \o Pad(dt.second, 2)
    \o (IF dt.microsecond # 0 THEN <<".">> \o Pad(dt.microsecond, 6) ELSE <<>>)
    \o FormatOffset(dt.utcoffset)

\* datetime.fromisoformat() on the strings isoformat() writes.
fromisoformat(s) ==
    LET hasFrac == Len(s) > 19 /\ s[20] = "."
        tzAt    == IF hasFrac THEN 27 ELSE 20
        sign    == IF s[tzAt] = "-" THEN 0 - 1 ELSE 1
    IN  [year        |-> ParseInt(SubSeq(s, 1, 4)),
         month       |-> ParseInt(SubSeq(s, 6, 7)),
         day         |-> ParseInt(SubSeq(s, 9, 10)),
         hour        |-> ParseInt(SubSeq(s, 12, 13)),
         minute      |-> ParseInt(SubSeq(s, 15, 16)),
         second      |-> ParseInt(SubSeq(s, 18, 19)),
         microsecond |-> IF hasFrac THEN ParseInt(SubSeq(s, 21, 26)) ELSE 0,
         utcoffset   |-> sign * (60 * ParseInt(SubSeq(s, tzAt + 1, tzAt + 2))
                                 + ParseInt(SubSeq(s, tzAt + 4, tzAt + 5)))]

\* ------------------------------------------------------- request bodies
\* Email strings are sequences of characters.
Lower(c) == IF c = "X" THEN "x" ELSE c

AtPositions(e) == {i \in 1..Len(e) : e[i] = "@"}

LocalPart(e) == SubSeq(e, 1, (CHOOSE i \in AtPositions(e) : TRUE) - 1)

DomainPart(e) == SubSeq(e, (CHOOSE i \in AtPositions(e) : TRUE) + 1, Len(e))

\* A validator that lets every string through.
EmailStrAcceptsAll(e) == TRUE

\* pydantic EmailStr: local-part "@" domain, both non-empty, the domain
\* holding a period that is neither its first nor its last character.
EmailStrAccepts(e) ==
    /\ Cardinality(AtPositions(e)) = 1
    /\ LocalPart(e) # <<>>
    /\ LET d == DomainPart(e)
       IN  /\ d # <<>>
           /\ \E i \in 2..(Len(d) - 1) : d[i] = "."
           /\ d[1] # "." /\ d[Len(d)] # "."

\* The value the validated field holds: EmailStr lower-cases the domain.
EmailStrValue(e) ==
    IF AtPositions(e) = {} THEN e
    ELSE LET d == DomainPart(e)
         IN  LocalPart(e) \o <<"@">> \o [i \in 1..Len(d) |-> Lower(d[i])]

EmailInputs ==
    { <<"j", "o", "@", "x", ".", "c", "o">>,
      <<"j", "o", "@", "X", ".", "c", "o">>,
      <<"j", "o", "x", ".", "c", "o">>,
      <<"j", "o", "@", "x">> }

\* JSON bodies a client posts to /api/contact.
ContactBodies ==
    [name : {"Jo"}, email : EmailInputs, company : {Missing, "Acme"},
     message : {"hi"}]
    \cup {[name |-> Missing, email |-> <<"j", "o", "@", "x", ".", "c", "o">>,
           company |-> "", message |-> "hi"]}

\* JSON bodies a client posts to /api/status.
StatusBodies == [client_name : {"acme-bot", "", Missing}]

\* class StatusCheckCreate
StatusCheckCreateValid(body) == body.client_name # Missing

\* class ContactFormRequest: name and message required, email an EmailStr.
ContactFormRequestValid(body) ==
    /\ body.name # Missing
    /\ body.message # Missing
    /\ EmailStrAccepts(body.email)

\* The validated model: company defaults to "".
ContactFormRequest(body) ==
    [name    |-> body.name,
     email   |-> EmailStrValue(body.email),
     company |-> IF body.company = Missing THEN "" ELSE body.company,
     message |-> body.message]

\* ------------------------------------------------------------ collaborators
\* Environments the process may be started in.  Each key holds a value or is
\* absent (None).
Environs ==
    LET full == [MONGO_URL |-> "mongodb://db", DB_NAME |-> "invera",
                 RESEND_API_KEY |-> "re_key", SENDER_EMAIL |-> None,
                 RECIPIENT_EMAIL |-> "team@invera.io"]
    IN  { full,
          [full EXCEPT !.MONGO_URL = None],
          [full EXCEPT !.DB_NAME = None],
          [full EXCEPT !.RESEND_API_KEY = None],
          [full EXCEPT !.RECIPIENT_EMAIL = None] }

\* os.environ[key]: raises KeyError when the key is absent.
RaisesKeyError(env, key) == env[key] = None

\* os.environ.get(key, default)
environ_get(env, key, default) == IF env[key] = None THEN default ELSE env[key]

\* What resend.Emails.send can do with one request: return the provider's
\* response, with or without an "id", or raise.  Without an API key or a
\* recipient the provider rejects the request.
ProviderOutcomes ==
    IF api_key = None \/ RECIPIENT_EMAIL = None
    THEN {[kind |-> "error", body |-> [message |-> "rejected"]]}
    ELSE { [kind |-> "ok", body |-> [id |-> "msg_123"]],
           [kind |-> "ok", body |-> [object |-> "email"]],
           [kind |-> "error", body |-> [message |-> "rejected"]] }

\* dict.get(key): None when the key is absent.
dict_get_nothing(d, key) == None

dict_get(d, key) == IF key \in DOMAIN d THEN d[key] ELSE None

\* A cursor that returns the newest n documents.
to_list_newest(coll, n) ==
    IF Len(coll) <= n THEN coll ELSE SubSeq(coll, Len(coll) - n + 1, Len(coll))

\* A cursor read without a length cap.
to_list_all(coll, n) == coll

\* find({}, {"_id": 0}).to_list(n): the first n documents in natural order.
to_list(coll, n) == IF Len(coll) <= n THEN coll ELSE SubSeq(coll, 1, n)

\* The send call made on the event loop thread itself.
run_inline(r) == {r}

\* asyncio.to_thread(f, ...): f runs on a worker thread and the coroutine
\* yields; the result is the set of handlers that hold the event loop
\* while f runs.
to_thread(r) == {}

\* --------------------------------------------------------- contact helpers
\* strftime('%Y-%m-%d %H:%M:%S UTC')
strftime(dt) ==
    Pad(dt.year, 4) \o <<"-">> \o Pad(dt.month, 2) \o <<"-">> \o Pad(dt.day, 2)
    \o <<" ">> \o Pad(dt.hour, 2) \o <<":">> \o Pad(dt.minute, 2) \o <<":">>
    \o Pad(dt.second, 2) \o <<" ", "U", "T", "C">>

\* The f-string template: the fields it interpolates, verbatim.  The company
\* block is present only when request.company is non-empty.
html_content(request, now) ==
    [name          |-> request.name,
     email         |-> request.email,
     company_block |-> IF request.company # "" THEN <<request.company>> ELSE <<>>,
     message       |-> request.message,
     received_at   |-> strftime(now)]

email_params(request, now) ==
    [from    |-> SENDER_EMAIL,
     to      |-> <<RECIPIENT_EMAIL>>,
     subject |-> <<"New Contact Form Submission from ", request.name>>,
     html    |-> html_content(request, now)]

\* A failure message that leaves the address out.
failure_detail_plain(recipient) ==
    <<"Failed to send message. Please try again later.">>

\* The detail of the HTTPException raised by the except clause.
failure_detail(recipient) ==
    <<"Failed to send message. Please try again later or contact us directly at ",
      recipient>>

DispatchFailure == [status |-> 500, detail |-> failure_detail(RECIPIENT_EMAIL)]

\* The framework's answer to an exception no handler catches.
InternalServerError == [status |-> 500, detail |-> <<"Internal Server Error">>]

\* The framework's answer to a body that fails validation.
ValidationFailure == [status |-> 422, detail |-> <<"validation error">>]

SuccessMessage ==
    "Your message has been sent successfully! We'll get back to you soon."

\* A send that never counts as failed.
send_raised_never(outcome) == FALSE

\* The awaited send raised: control goes to the except clause.
send_raised(outcome) == outcome.kind = "error"

\* ------------------------------------------------------------------- Init
\* A document written by an earlier run of the service.
StoredStatusCheck(i) ==
    [id          |-> i,
     client_name |-> "acme-bot",
     timestamp   |-> isoformat(CHOOSE t \in Instants :
                                   (t.microsecond = 0) <=> (i % 2 = 0))]

\* The process before server.py is imported, the database holding n status
\* checks from earlier runs.
InitWith(envs, sizes) ==
    /\ environ \in envs
    /\ phase = "boot"
    /\ SENDER_EMAIL = None
    /\ RECIPIENT_EMAIL = None
    /\ api_key = None
    /\ \E n \in sizes :
          /\ status_checks = [i \in 1..n |-> StoredStatusCheck(i)]
          /\ nextUuid = n + 1
    /\ contact_submissions = <<>>
    /\ pc = [r \in Requests |-> "idle"]
    /\ local = [r \in Requests |-> [kind |-> "none"]]
    /\ resp = [r \in Requests |-> [status |-> 0]]
    /\ invocations = [r \in Requests |-> 0]
    /\ loop = {}
    /\ concurrent = [r \in Requests |-> {}]

Init == InitWith(Environs, {0})

\* The service is started, fully configured, on a database that already
\* holds ListLimit status checks.
InitFull ==
    InitWith({env \in Environs : \A key \in DOMAIN env :
                                     key # "SENDER_EMAIL" => env[key] # None},
             {ListLimit})

\* ---------------------------------------------------------------- actions
\* Import of server.py (lines 16-36): os.environ['MONGO_URL'] and
\* os.environ['DB_NAME'] raise KeyError when absent and the process dies;
\* the other settings are read with os.environ.get.
Startup ==
    /\ phase = "boot"
    /\ IF RaisesKeyError(environ, "MONGO_URL") \/ RaisesKeyError(environ, "DB_NAME")
       THEN /\ phase' = "crashed"
            /\ UNCHANGED <<SENDER_EMAIL, RECIPIENT_EMAIL, api_key>>
       ELSE /\ phase' = "running"
            /\ api_key' = environ_get(environ, "RESEND_API_KEY", None)
            /\ SENDER_EMAIL' = environ_get(environ, "SENDER_EMAIL", DefaultSender)
            /\ RECIPIENT_EMAIL' = environ_get(environ, "RECIPIENT_EMAIL", None)
    /\ UNCHANGED <<environ, status_checks, contact_submissions, pc, local, resp,
                   invocations, loop, concurrent, nextUuid>>

\* The server takes request r off the socket: it runs, the loop is free, and
\* the requests are numbered in arrival order.
Accepts(r) ==
    /\ phase = "running"
    /\ pc[r] = "idle"
    /\ IF r = 1 THEN TRUE ELSE pc[r - 1] # "idle"
    /\ loop = {}

\* The event loop can resume handler r.
Resumes(r) == loop \subseteq {r}

Arrived(r) == concurrent' = [concurrent EXCEPT ![r] = {q \in Requests : pc[q] = "sending"}]

\* POST /api/status, up to "await db.status_checks.insert_one(doc)".
create_status_check(r) ==
    /\ Accepts(r)
    /\ Arrived(r)
    /\ \E body \in StatusBodies, now \in Instants :
          IF ~StatusCheckCreateValid(body)
          THEN /\ pc' = [pc EXCEPT ![r] = "done"]
               /\ resp' = [resp EXCEPT ![r] = ValidationFailure]
               /\ local' = [local EXCEPT ![r] = [kind |-> "create", input |-> body]]
               /\ UNCHANGED nextUuid
          ELSE LET status_obj == [id          |-> nextUuid,
                                  client_name |-> body.client_name,
                                  timestamp   |-> now]
                   doc == [status_obj EXCEPT !.timestamp = isoformat(now)]
               IN  /\ pc' = [pc EXCEPT ![r] = "insert_status"]
                   /\ local' = [local EXCEPT ![r] =
                                  [kind |-> "create", input |-> body,
                                   status_obj |-> status_obj, doc |-> doc]]
                   /\ nextUuid' = nextUuid + 1
                   /\ UNCHANGED resp
    /\ UNCHANGED <<config, phase, status_checks, contact_submissions,
                   invocations, loop>>

\* insert_one returns (or raises: nothing catches it) and the handler
\* returns status_obj.
create_status_check_inserted(r) ==
    /\ pc[r] = "insert_status"
    /\ Resumes(r)
    /\ \E stored \in BOOLEAN :
          IF stored
          THEN /\ status_checks' = Append(status_checks, local[r].doc)
               /\ resp' = [resp EXCEPT ![r] =
                             [status |-> 200, body |-> local[r].status_obj]]
          ELSE /\ resp' = [resp EXCEPT ![r] = InternalServerError]
               /\ UNCHANGED status_checks
    /\ pc' = [pc EXCEPT ![r] = "done"]
    /\ UNCHANGED <<config, phase, contact_submissions, local, invocations, loop,
                   concurrent, nextUuid>>

\* GET /api/status, up to "await ...find(...).to_list(1000)".
get_status_checks(r) ==
    /\ Accepts(r)
    /\ Arrived(r)
    /\ pc' = [pc EXCEPT ![r] = "find_status"]
    /\ local' = [local EXCEPT ![r] = [kind |-> "list"]]
    /\ UNCHANGED <<config, phase, status_checks, contact_submissions, resp,
                   invocations, loop, nextUuid>>

\* The loop of lines 80-82: string timestamps become datetimes again.
parse_timestamps(checks) ==
    [i \in 1..Len(checks) |->
        [checks[i] EXCEPT !.timestamp = fromisoformat(checks[i].timestamp)]]

\* to_list returns (or raises) and the handler returns the converted list.
get_status_checks_found(r) ==
    /\ pc[r] = "find_status"
    /\ Resumes(r)
    /\ \E read \in BOOLEAN :
          resp' = [resp EXCEPT ![r] =
                     IF read
                     THEN [status |-> 200,
                           body |-> parse_timestamps(to_list(status_checks, ListLimit))]
                     ELSE InternalServerError]
    \* history: how many documents the collection held when it was read
    /\ local' = [local EXCEPT ![r] = [kind |-> "list", held |-> Len(status_checks)]]
    /\ pc' = [pc EXCEPT ![r] = "done"]
    /\ UNCHANGED <<config, phase, status_checks, contact_submissions,
                   invocations, loop, concurrent, nextUuid>>

\* POST /api/contact, up to "await asyncio.to_thread(resend.Emails.send, params)".
send_contact_email(r) ==
    /\ Accepts(r)
    /\ Arrived(r)
    /\ \E body \in ContactBodies, now \in Instants :
          IF ~ContactFormRequestValid(body)
          THEN /\ pc' = [pc EXCEPT ![r] = "done"]
               /\ resp' = [resp EXCEPT ![r] = ValidationFailure]
               /\ local' = [local EXCEPT ![r] = [kind |-> "contact", input |-> body]]
               /\ UNCHANGED <<invocations, loop>>
          ELSE LET request == ContactFormRequest(body)
               IN  /\ pc' = [pc EXCEPT ![r] = "sending"]
                   /\ local' = [local EXCEPT ![r] =
                                  [kind |-> "contact", request |-> request,
                                   params |-> email_params(request, now)]]
                   /\ invocations' = [invocations EXCEPT ![r] = @ + 1]
                   /\ loop' = to_thread(r)
                   /\ UNCHANGED resp
    /\ UNCHANGED <<config, phase, status_checks, contact_submissions, nextUuid>>

\* The send call returns or raises.  On a raise the except clause answers
\* 500; otherwise the handler builds the submission, up to
\* "await db.contact_submissions.insert_one(submission)".
send_contact_email_sent(r) ==
    /\ pc[r] = "sending"
    /\ Resumes(r)
    /\ \E outcome \in ProviderOutcomes, now \in Instants :
          IF send_raised(outcome)
          THEN /\ pc' = [pc EXCEPT ![r] = "done"]
               /\ local' = [local EXCEPT ![r] =
                              [kind |-> "contact", request |-> local[r].request,
                               outcome |-> outcome]]
               /\ resp' = [resp EXCEPT ![r] = DispatchFailure]
               /\ UNCHANGED nextUuid
          ELSE LET request == local[r].request
                   submission ==
                       [id        |-> nextUuid,
                        name      |-> request.name,
                        email     |-> request.email,
                        company   |-> request.company,
                        message   |-> request.message,
                        timestamp |-> isoformat(now),
                        email_id  |-> dict_get(outcome.body, "id")]
               IN  /\ pc' = [pc EXCEPT ![r] = "insert_contact"]
                   /\ local' = [local EXCEPT ![r] =
                                  [kind |-> "contact", request |-> request,
                                   outcome |-> outcome,
                                   submission |-> submission]]
                   /\ nextUuid' = nextUuid + 1
                   /\ UNCHANGED resp
    /\ loop' = {}
    /\ UNCHANGED <<config, phase, status_checks, contact_submissions,
                   invocations, concurrent>>

\* insert_one returns and the handler answers success, or insert_one raises
\* inside the same try block and the except clause answers 500.
send_contact_email_inserted(r) ==
    /\ pc[r] = "insert_contact"
    /\ Resumes(r)
    /\ \E stored \in BOOLEAN :
          /\ local' = [local EXCEPT ![r] =
                         [kind |-> "contact", request |-> local[r].request,
                          outcome |-> local[r].outcome,
                          submission |-> local[r].submission, stored |-> stored]]
          /\ IF stored
             THEN /\ contact_submissions' =
                         Append(contact_submissions, local[r].submission)
                  /\ resp' = [resp EXCEPT ![r] =
                                [status |-> 200,
                                 body |-> [status   |-> "success",
                                           message  |-> SuccessMessage,
                                           email_id |-> dict_get(local[r].outcome.body, "id")]]]
             ELSE /\ resp' = [resp EXCEPT ![r] = DispatchFailure]
                  /\ UNCHANGED contact_submissions
    /\ pc' = [pc EXCEPT ![r] = "done"]
    /\ UNCHANGED <<config, phase, status_checks, invocations, loop, concurrent,
                   nextUuid>>

\* Every step request r's handler can take.
Handler(r) ==
    \/ create_status_check(r)
    \/ create_status_check_inserted(r)
    \/ get_status_checks(r)
    \/ get_status_checks_found(r)
    \/ send_contact_email(r)
    \/ send_contact_email_sent(r)
    \/ send_contact_email_inserted(r)

Next ==
    \/ Startup
    \/ \E r \in Requests : create_status_check(r)
    \/ \E r \in Requests : create_status_check_inserted(r)
    \/ \E r \in Requests : get_status_checks(r)
    \/ \E r \in Requests : get_status_checks_found(r)
    \/ \E r \in Requests : send_contact_email(r)
    \/ \E r \in Requests : send_contact_email_sent(r)
    \/ \E r \in Requests : send_contact_email_inserted(r)

Spec == Init /\ [][Next]_vars

\* The status endpoints alone, on a database that has reached the list cap.
NextStatus ==
    \/ Startup
    \/ \E r \in Requests : create_status_check(r)
    \/ \E r \in Requests : create_status_check_inserted(r)
    \/ \E r \in Requests : get_status_checks(r)
    \/ \E r \in Requests : get_status_checks_found(r)

SpecFull == InitFull /\ [][NextStatus]_vars

\* ================================================================ claims
IsDone(r) == pc[r] = "done"

Has(r, field) == field \in DOMAIN local[r]

\* Contact requests that passed validation, i.e. whose handler body ran.
ContactHandled(r) == local[r].kind = "contact" /\ Has(r, "request")

DispatchOk(r) == ContactHandled(r) /\ Has(r, "outcome") /\ local[r].outcome.kind = "ok"

DispatchFailed(r) ==
    ContactHandled(r) /\ Has(r, "outcome") /\ local[r].outcome.kind = "error"

\* The request built a submission and that submission is in the collection.
Submitted(r) ==
    /\ ContactHandled(r)
    /\ Has(r, "submission")
    /\ \E i \in 1..Len(contact_submissions) :
          contact_submissions[i] = local[r].submission

Contains(detail, text) == \E i \in 1..Len(detail) : detail[i] = text

\* C1: every document in contact_submissions belongs to a request whose
\* email dispatch had completed successfully, and a request whose dispatch
\* failed has no document in the collection.
C1_SubmissionOnlyAfterDispatch ==
    /\ \A i \in 1..Len(contact_submissions) :
          \E r \in Requests :
             /\ DispatchOk(r)
             /\ Has(r, "submission")
             /\ local[r].submission = contact_submissions[i]
    /\ \A r \in Requests : DispatchFailed(r) => ~Submitted(r)

\* One request's dispatch succeeded and its document is stored while another
\* request's dispatch failed.
C1_Witness ==
    \E r, q \in Requests :
       /\ DispatchOk(r) /\ Submitted(r)
       /\ DispatchFailed(q) /\ IsDone(q)

\* The store persisted request r's submission.
Persisted(r) == DispatchOk(r) /\ Has(r, "stored") /\ local[r].stored

\* The store failed to persist request r's submission after a successful send.
PersistFailed(r) == DispatchOk(r) /\ Has(r, "stored") /\ ~local[r].stored

\* C2: when the store fails to persist the submission after a successful
\* dispatch, the caller does not get the dispatch-failure 500 response (the
\* one saying the message failed to send and advising a retry).
C2_PersistFailureIsNotDispatchFailure ==
    \A r \in Requests :
       (IsDone(r) /\ PersistFailed(r)) => resp[r] # DispatchFailure

\* The provider's message identifier, null when its response has none.
ProviderId(r) ==
    IF "id" \in DOMAIN local[r].outcome.body THEN local[r].outcome.body.id ELSE None

\* C3: a valid contact request whose dispatch and insert both succeed is
\* answered "success" with the provider's message id (null when absent), and
\* exactly one document was added for it, carrying the request's name, email,
\* company and message and the same email_id.
C3_SuccessfulSubmit ==
    /\ \A r \in Requests :
          (IsDone(r) /\ Persisted(r)) =>
             /\ resp[r].status = 200
             /\ resp[r].body.status = "success"
             /\ resp[r].body.email_id = ProviderId(r)
             /\ Cardinality({i \in 1..Len(contact_submissions) :
                               contact_submissions[i].id = local[r].submission.id}) = 1
             /\ \A i \in 1..Len(contact_submissions) :
                   contact_submissions[i].id = local[r].submission.id =>
                      /\ contact_submissions[i].name = local[r].request.name
                      /\ contact_submissions[i].email = local[r].request.email
                      /\ contact_submissions[i].company = local[r].request.company
                      /\ contact_submissions[i].message = local[r].request.message
                      /\ contact_submissions[i].email_id = ProviderId(r)
    /\ Len(contact_submissions) =
          Cardinality({r \in Requests : IsDone(r) /\ Persisted(r)})

\* Two submits succeeded, one with a provider id and one without.
C3_Witness ==
    \E r, q \in Requests :
       /\ IsDone(r) /\ Persisted(r)
       /\ IsDone(q) /\ Persisted(q)
       /\ resp[r].body.email_id = "msg_123"
       /\ resp[q].body.email_id = None
       /\ Len(contact_submissions) = 2

\* C4: every valid contact request invokes the dispatch adapter exactly
\* once; when that invocation fails the request ends, without another
\* invocation, in a 500 response whose message contains the configured
\* recipient address.
C4_DispatchOnceAndFailureResponse ==
    \A r \in Requests :
       ContactHandled(r) =>
          /\ invocations[r] = 1
          /\ DispatchFailed(r) =>
                /\ IsDone(r)
                /\ resp[r].status = 500
                /\ RECIPIENT_EMAIL # None => Contains(resp[r].detail, RECIPIENT_EMAIL)

\* A dispatch failed although the recipient address is configured.
C4_Witness ==
    \E r \in Requests :
       /\ DispatchFailed(r) /\ IsDone(r)
       /\ RECIPIENT_EMAIL = "team@invera.io"
       /\ api_key # None

\* The email a contact request carried: the posted value when the body was
\* rejected, the validated field otherwise.
CarriedEmail(r) ==
    IF Has(r, "input") THEN local[r].input.email ELSE local[r].request.email

\* No local-part "@" domain shape: no "@" with text on both sides.
Malformed(e) == ~\E i \in 2..(Len(e) - 1) : e[i] = "@"

\* C5: a contact request with a malformed email is answered 422 and never
\* reaches the handler: the dispatch adapter is not invoked for it and no
\* document of either collection comes from it.
C5_MalformedEmailRejected ==
    /\ \A r \in Requests :
          (local[r].kind = "contact" /\ Malformed(CarriedEmail(r))) =>
             /\ IsDone(r)
             /\ resp[r].status = 422
             /\ invocations[r] = 0
             /\ ~Has(r, "submission")
    /\ Len(contact_submissions) + Len(status_checks) =
          Cardinality({r \in Requests : IsDone(r) /\ resp[r].status = 200
                                         /\ local[r].kind \in {"contact", "create"}})

\* A request whose email lacks the "@" was rejected.
C5_Witness ==
    \E r \in Requests :
       /\ local[r].kind = "contact"
       /\ \A i \in 1..Len(CarriedEmail(r)) : CarriedEmail(r)[i] # "@"
       /\ resp[r].status = 422

\* The configuration values the service requires.
RequiredSettings == {"MONGO_URL", "DB_NAME", "RESEND_API_KEY", "RECIPIENT_EMAIL"}

\* C6: if a required configuration value is absent at startup the process
\* does not start and never handles a request.
C6_MissingSettingStopsStartup ==
    (\E key \in RequiredSettings : environ[key] = None) =>
       /\ phase # "running"
       /\ \A r \in Requests : pc[r] = "idle"

ListAnswered(r) == local[r].kind = "list" /\ IsDone(r) /\ resp[r].status = 200

\* C7: list never returns more than 1000 records, also when the collection
\* holds more.
C7_ListAtMostLimit ==
    \A r \in Requests : ListAnswered(r) => Len(resp[r].body) <= ListLimit

\* A list read a collection of more than 1000 documents.
C7_Witness ==
    \E r \in Requests :
       /\ ListAnswered(r)
       /\ local[r].held > ListLimit
       /\ Len(resp[r].body) = ListLimit

\* C8 (as stated): when the collection holds more than 1000 documents, list
\* returns the 1000 most recently inserted ones.
C8_ListReturnsNewest ==
    \A r \in Requests :
       (ListAnswered(r) /\ local[r].held > ListLimit) =>
          /\ Len(resp[r].body) = ListLimit
          /\ \A i \in 1..ListLimit :
                resp[r].body[i].id = status_checks[local[r].held - ListLimit + i].id

\* C8 (amended): when the collection holds more than 1000 documents, list
\* returns the first 1000 in insertion order, the oldest ones.
C8_ListReturnsOldest ==
    \A r \in Requests :
       (ListAnswered(r) /\ local[r].held > ListLimit) =>
          /\ Len(resp[r].body) = ListLimit
          /\ \A i \in 1..ListLimit : resp[r].body[i].id = status_checks[i].id

\* A list read a collection one document over the cap.
C8_Witness ==
    \E r \in Requests :
       /\ ListAnswered(r)
       /\ local[r].held = ListLimit + 1
       /\ resp[r].body[1].id = 1

CreateAnswered(r) == local[r].kind = "create" /\ IsDone(r) /\ resp[r].status = 200

\* C9: a status check that list returns has the client_name its create
\* request was given and the timestamp its create response carried.
C9_RoundTrip ==
    \A q \in Requests :
       ListAnswered(q) =>
          \A i \in 1..Len(resp[q].body) :
             \A r \in Requests :
                (CreateAnswered(r) /\ resp[r].body.id = resp[q].body[i].id) =>
                   /\ resp[q].body[i].client_name = local[r].input.client_name
                   /\ resp[q].body[i].timestamp = resp[r].body.timestamp

\* A listed status check whose timestamp has a fractional second.
C9_Witness ==
    \E q, r \in Requests :
       /\ ListAnswered(q) /\ CreateAnswered(r)
       /\ resp[r].body.timestamp.microsecond # 0
       /\ \E i \in 1..Len(resp[q].body) : resp[q].body[i].id = resp[r].body.id

\* Request q has work to do: it is mid-handler, or it is the next to arrive.
Pending(q) ==
    \/ pc[q] \notin {"idle", "done"}
    \/ pc[q] = "idle" /\ \A p \in 1..(q - 1) : pc[p] # "idle"

\* C10: while one contact request awaits its dispatch call, every other
\* request with work to do can take its next step.
C10_DispatchDoesNotStall ==
    \A r \in Requests :
       pc[r] = "sending" =>
          \A q \in Requests \ {r} : Pending(q) => ENABLED Handler(q)

\* A request arrived while a dispatch was in flight and was answered before
\* that dispatch returned.
C10_Witness ==
    \E r, q \in Requests :
       /\ pc[r] = "sending"
       /\ r \in concurrent[q]
       /\ IsDone(q)
       /\ resp[q].status = 200

====
